---- MODULE Spec2Model ----
(***************************************************************************)
(* Model of the case-simulator engine of src/app.py: the DataStore         *)
(* aggregate (rarities, items, inventory, history, stats, settings), the   *)
(* persisted document, and one action per API operation.                   *)
(*                                                                         *)
(* Conventions of the model                                                *)
(*  - uuid4 strings are modelled as fresh integers taken from nextId.      *)
(*  - Python numbers (int/float) are modelled as exact integers; float()   *)
(*    is value-preserving on them.  Rolls and band limits are counted in   *)
(*    quarters of a thousandth, so that R(60) is 60.0 and R(60) - 1 is     *)
(*    59.99975; weights, prices and quantities are counted in units.       *)
(*  - a Python dict with optional keys is a TLA+ record; "key in payload"  *)
(*    is "key" \in DOMAIN payload.  {} is the empty function <<>>.         *)
(*  - a history payload that is the very dict object held by the catalog   *)
(*    (add_rarity, update_rarity, add_item, update_item, update_settings,  *)
(*    and the rarity/item of each open_case result) is shared with it: an  *)
(*    in-place update of the dict is seen through the history as well.     *)
(*    Objects are identified by their id, which is never reused.           *)
(*  - the "timestamp" field of a history entry is left out.                *)
(*  - the persisted file is the document json.dump wrote (str keys, lists   *)
(*    and numbers survive the dump unchanged), or, before construction, a  *)
(*    record naming what reading the file does.  Failures of writing the   *)
(*    file are not modelled.                                               *)
(*  - rarity names stand for the Russian names of the source              *)
(*    ("Common" = Obychnaya, "Rare" = Redkaya, "Epic" = Epicheskaya,       *)
(*    "Legendary" = Legendarnaya).                                         *)
(***************************************************************************)
EXTENDS Integers, Sequences, FiniteSets, TLC

VARIABLES
    rarities,   \* self.data["rarities"]: sequence of rarity dicts
    items,      \* self.data["items"]: sequence of item dicts
    inventory,  \* self.data["inventory"]: item id -> quantity
    history,    \* self.data["history"]: sequence of entries, newest first
    stats,      \* self.data["stats"]
    settings,   \* self.data["settings"]
    disk,       \* the document last written by save()
    ret,        \* the last call, the value it returned, and its loop's last draw
    nextId,     \* source of fresh uuids
    calls       \* number of API calls still to be explored

vars == <<rarities, items, inventory, history, stats, settings, disk, ret, nextId, calls>>

-----------------------------------------------------------------------------
(* Bounds of the exploration *)

\* API calls explored from the seeded default state
MaxOps == 2
\* API calls explored from a loaded document with a nearly full history
MaxLoadedOps == 1
\* API calls explored after a construction from each kind of persisted file
MaxStartupOps == 1
\* Rarities in the catalogs handed to the validator
MaxBands == 3

(* Program constants *)

\* self.data["history"][:500]
HISTORY_LIMIT == 500
\* max(1, min(100, int(times)))
MIN_TIMES == 1
MAX_TIMES == 100
\* result[:10] in the open_case history payload
HISTORY_RESULTS == 10

-----------------------------------------------------------------------------
(* Dict helpers *)

Get(m, k, d) == IF k \in DOMAIN m THEN m[k] ELSE d
Put(m, k, v) == (k :> v) @@ m
pop_keeps_entry(m, k) == m
\* dict.pop(k, None)
Pop(m, k) == [x \in (DOMAIN m) \ {k} |-> m[x]]
EmptyDict == <<>>

Max2(a, b) == IF a >= b THEN a ELSE b
Min2(a, b) == IF a <= b THEN a ELSE b
MinOf(S) == CHOOSE x \in S : \A y \in S : x <= y

RECURSIVE SumWeights(_)
SumWeights(s) == IF s = <<>> THEN 0 ELSE Head(s).weight + SumWeights(Tail(s))

\* s[:n]
Prefix(s, n) == SubSeq(s, 1, Min2(Len(s), n))

\* Optional value: <<>> is None, <<v>> is v
None == <<>>
Some(v) == <<v>>

-----------------------------------------------------------------------------
(* Records *)

Rarity(id, name, min_roll, max_roll, color) ==
    [id |-> id, name |-> name, min_roll |-> min_roll, max_roll |-> max_roll, color |-> color]

Item(id, name, rarity_id, weight, image_path, description) ==
    [id |-> id, name |-> name, rarity_id |-> rarity_id, weight |-> weight,
     image_path |-> image_path, description |-> description]

DefaultStats == [total_opened |-> 0, total_spent |-> 0, by_rarity |-> EmptyDict, by_item |-> EmptyDict]

DefaultSettings == [roll_min |-> 0, roll_max |-> 100, open_price |-> 1]

\* The document json.dump(self.data) writes
Doc(r, i, inv, h, st, se) ==
    [rarities |-> r, items |-> i, inventory |-> inv, history |-> h, stats |-> st, settings |-> se]

rarity_map_any_id == 0..nextId
\* _rarity_map(): the ids of the rarities of the catalog
rarity_map == {rarities[k].id : k \in 1..Len(rarities)}

item_map_any_id == 0..nextId
\* _item_map(): the ids of the items of the catalog
item_map == {items[k].id : k \in 1..Len(items)}

-----------------------------------------------------------------------------
(* _append_history, with the sharing of payload dicts *)

Entry(id, action, payload) == [id |-> id, action |-> action, payload |-> payload]

append_history_keep_all(h, id, action, payload) == <<Entry(id, action, payload)>> \o h

append_history(h, id, action, payload) ==
    Prefix(<<Entry(id, action, payload)>> \o h, HISTORY_LIMIT)

\* The open_case results as seen after the dict with d.id was updated in place to d
ShareInResults(rs, d, field) ==
    [k \in 1..Len(rs) |-> IF rs[k][field].id = d.id THEN [rs[k] EXCEPT ![field] = d] ELSE rs[k]]

\* History as seen after the rarity dict r was updated in place
ShareRarity(h, r) ==
    [k \in 1..Len(h) |->
        IF h[k].action \in {"add_rarity", "update_rarity"} /\ h[k].payload.id = r.id
        THEN [h[k] EXCEPT !.payload = r]
        ELSE IF h[k].action = "open_case"
        THEN [h[k] EXCEPT !.payload.results = ShareInResults(@, r, "rarity")]
        ELSE h[k]]

\* History as seen after the item dict i was updated in place
ShareItem(h, i) ==
    [k \in 1..Len(h) |->
        IF h[k].action \in {"add_item", "update_item"} /\ h[k].payload.id = i.id
        THEN [h[k] EXCEPT !.payload = i]
        ELSE IF h[k].action = "open_case"
        THEN [h[k] EXCEPT !.payload.results = ShareInResults(@, i, "item")]
        ELSE h[k]]

\* History as seen after the settings dict was updated in place to s
ShareSettings(h, s) ==
    [k \in 1..Len(h) |->
        IF h[k].action = "update_settings" THEN [h[k] EXCEPT !.payload = s] ELSE h[k]]

-----------------------------------------------------------------------------
(* _validate_rarity_ranges *)

\* Code-point order of the rarity names (Python compares str by code point):
\* Legendarnaya < Obychnaya < Redkaya < Epicheskaya; the Latin names sort first.
NameRank(n) ==
    CASE n = "Mythic" -> 1
      [] n = "Renamed" -> 2
      [] n = "Legendary" -> 3
      [] n = "Common" -> 4
      [] n = "Rare" -> 5
      [] n = "Epic" -> 6
      [] OTHER -> 0

\* Tuple order on (min_roll, max_roll, name)
RangeLess(a, b) ==
    \/ a[1] < b[1]
    \/ a[1] = b[1] /\ a[2] < b[2]
    \/ a[1] = b[1] /\ a[2] = b[2] /\ NameRank(a[3]) < NameRank(b[3])

RECURSIVE Insert(_, _)
Insert(x, s) ==
    IF s = <<>> THEN <<x>>
    ELSE IF RangeLess(x, Head(s)) THEN <<x>> \o s
    ELSE <<Head(s)>> \o Insert(x, Tail(s))

RECURSIVE sorted(_)
sorted(s) == IF s = <<>> THEN <<>> ELSE Insert(s[Len(s)], sorted(SubSeq(s, 1, Len(s) - 1)))

Ranges(rars) == sorted([k \in 1..Len(rars) |-> <<rars[k].min_roll, rars[k].max_roll, rars[k].name>>])

MsgOk == [kind |-> "ok", names |-> <<>>]
MsgRollMin == [kind |-> "roll_min must be less than roll_max", names |-> <<>>]
MsgMinGtMax(name) == [kind |-> "min_roll > max_roll", names |-> <<name>>]
MsgOverlap(a, b) == [kind |-> "ranges overlap", names |-> <<a, b>>]
MsgRarityNotFound == [kind |-> "rarity not found", names |-> <<>>]
MsgItemNotFound == [kind |-> "item not found", names |-> <<>>]
MsgRarityInUse == [kind |-> "rarity has linked items", names |-> <<>>]
MsgNoSuchRarity == [kind |-> "rarity does not exist", names |-> <<>>]
MsgInsufficient == [kind |-> "not enough items in inventory", names |-> <<>>]

validate_rarity_ranges_wrong_field(rars, sett) ==
    IF sett.roll_min >= sett.roll_max THEN [ok |-> FALSE, message |-> MsgRollMin]
    ELSE LET inverted == {k \in 1..Len(rars) : rars[k].min_roll > rars[k].max_roll}
             ranges == Ranges(rars)
             clash == {k \in 2..Len(ranges) : ranges[k][1] < ranges[k - 1][1]}
         IN  IF inverted # {}
             THEN [ok |-> FALSE, message |-> MsgMinGtMax(rars[MinOf(inverted)].name)]
             ELSE IF clash # {}
             THEN [ok |-> FALSE,
                   message |-> MsgOverlap(ranges[MinOf(clash) - 1][3], ranges[MinOf(clash)][3])]
             ELSE [ok |-> TRUE, message |-> MsgOk]

validate_rarity_ranges_unsorted(rars, sett) ==
    IF sett.roll_min >= sett.roll_max THEN [ok |-> FALSE, message |-> MsgRollMin]
    ELSE LET inverted == {k \in 1..Len(rars) : rars[k].min_roll > rars[k].max_roll}
             clash == {k \in 2..Len(rars) : rars[k].min_roll < rars[k - 1].max_roll}
         IN  IF inverted # {}
             THEN [ok |-> FALSE, message |-> MsgMinGtMax(rars[MinOf(inverted)].name)]
             ELSE IF clash # {}
             THEN [ok |-> FALSE,
                   message |-> MsgOverlap(rars[MinOf(clash) - 1].name, rars[MinOf(clash)].name)]
             ELSE [ok |-> TRUE, message |-> MsgOk]

validate_rarity_ranges(rars, sett) ==
    IF sett.roll_min >= sett.roll_max THEN [ok |-> FALSE, message |-> MsgRollMin]
    ELSE LET inverted == {k \in 1..Len(rars) : rars[k].min_roll > rars[k].max_roll}
             ranges == Ranges(rars)
             clash == {k \in 2..Len(ranges) : ranges[k][1] < ranges[k - 1][2]}
         IN  IF inverted # {}
             THEN [ok |-> FALSE, message |-> MsgMinGtMax(rars[MinOf(inverted)].name)]
             ELSE IF clash # {}
             THEN [ok |-> FALSE,
                   message |-> MsgOverlap(ranges[MinOf(clash) - 1][3], ranges[MinOf(clash)][3])]
             ELSE [ok |-> TRUE, message |-> MsgOk]

-----------------------------------------------------------------------------
(* Draw engine: _roll_rarity, _pick_item_by_rarity *)

roll_rarity_sorted_order(rars, roll) ==
    LET hits == {k \in 1..Len(rars) : rars[k].min_roll <= roll /\ roll <= rars[k].max_roll}
    IN  IF hits = {} THEN None
        ELSE Some(rars[CHOOSE k \in hits : \A j \in hits : rars[k].min_roll <= rars[j].min_roll])

\* The first rarity in catalog order whose band contains roll, inclusive at both ends
roll_rarity(rars, roll) ==
    LET hits == {k \in 1..Len(rars) : rars[k].min_roll <= roll /\ roll <= rars[k].max_roll}
    IN  IF hits = {} THEN None ELSE Some(rars[MinOf(hits)])

candidates(its, rarity_id) ==
    SelectSeq(its, LAMBDA i : i.rarity_id = rarity_id /\ i.weight > 0)

\* The walk over the candidates for a sampled point; the last candidate is the fallback
pick_item(cands, point) ==
    LET hit == {k \in 1..Len(cands) : point <= SumWeights(SubSeq(cands, 1, k))}
    IN  IF hit # {} THEN cands[MinOf(hit)] ELSE cands[Len(cands)]

\* The points random.uniform(0, total_weight) can return, on the integer grid
Points(total_weight) == 0..total_weight

\* The roll value x (a whole number) on the grid of quarter-thousandths
R(x) == x * 4000

\* round(roll, 3): the nearest multiple of 4 grid steps (grid values used as
\* rolls are never exactly half way)
round3(v) == LET m == v % 4 IN IF m < 2 THEN v - m ELSE v + (4 - m)

\* Values random.uniform(roll_min, roll_max) can return that the model samples:
\* the lower end, and three fixed values (59.99975, 60.0, 99.0) when they lie in
\* the range
RollSamples == {R(60) - 1, R(60), R(99)}
Rolls(sett) == {sett.roll_min} \cup {x \in RollSamples : sett.roll_min <= x /\ x < sett.roll_max}

\* What one iteration of the open_case loop can draw: the roll, the rarity it
\* selects (None when no band holds it) and the item picked (None when there is
\* no rarity or no candidate item)
DrawOutcomes(rars, its, sett) ==
    UNION { LET rarity == roll_rarity(rars, roll)
            IN  IF rarity = None THEN {[roll |-> roll, rarity |-> None, item |-> None]}
                ELSE LET cands == candidates(its, rarity[1].id)
                     IN  IF cands = <<>> THEN {[roll |-> roll, rarity |-> rarity, item |-> None]}
                         ELSE {[roll |-> roll, rarity |-> rarity,
                                item |-> Some(pick_item(cands, point))] :
                               point \in Points(SumWeights(cands))}
          : roll \in Rolls(sett) }

\* The bookkeeping of a successful draw
record_draw_no_inventory(ls, d, price) ==
    [ls EXCEPT !.stats = [total_opened |-> @.total_opened + 1,
                          total_spent |-> @.total_spent + price,
                          by_rarity |-> Put(@.by_rarity, d.rarity.id, Get(@.by_rarity, d.rarity.id, 0) + 1),
                          by_item |-> Put(@.by_item, d.item.id, Get(@.by_item, d.item.id, 0) + 1)],
               !.result = Append(@, [roll |-> round3(d.roll), rarity |-> d.rarity, item |-> d.item])]

record_draw_no_by_rarity(ls, d, price) ==
    [ls EXCEPT !.inventory = Put(@, d.item.id, Get(@, d.item.id, 0) + 1),
               !.stats = [total_opened |-> @.total_opened + 1,
                          total_spent |-> @.total_spent + price,
                          by_rarity |-> @.by_rarity,
                          by_item |-> Put(@.by_item, d.item.id, Get(@.by_item, d.item.id, 0) + 1)],
               !.result = Append(@, [roll |-> round3(d.roll), rarity |-> d.rarity, item |-> d.item])]

record_draw(ls, d, price) ==
    [ls EXCEPT !.inventory = Put(@, d.item.id, Get(@, d.item.id, 0) + 1),
               !.stats = [total_opened |-> @.total_opened + 1,
                          total_spent |-> @.total_spent + price,
                          by_rarity |-> Put(@.by_rarity, d.rarity.id, Get(@.by_rarity, d.rarity.id, 0) + 1),
                          by_item |-> Put(@.by_item, d.item.id, Get(@.by_item, d.item.id, 0) + 1)],
               !.result = Append(@, [roll |-> round3(d.roll), rarity |-> d.rarity, item |-> d.item])]

\* One iteration of "for _ in range(times)"
open_case_iteration(ls, o, price) ==
    LET counted == [ls EXCEPT !.attempts = @ + 1, !.last_draw = Some(o)]
    IN  IF o.item = None THEN counted
        ELSE record_draw(counted, [roll |-> o.roll, rarity |-> o.rarity[1], item |-> o.item[1]],
                         price)

\* The loop states reachable after n more iterations from the loop states S.
\* The n iterations are run as two halves, the first half being computed (the
\* test against {} makes TLC evaluate it) before the second starts: this keeps
\* the evaluation shallow.  The set is never empty.  range(n) is empty for n <= 0.
RECURSIVE open_case_loop(_, _, _, _)
open_case_loop(n, S, outcomes, price) ==
    IF n <= 0 THEN S
    ELSE IF n = 1 THEN {open_case_iteration(ls, o, price) : ls \in S, o \in outcomes}
    ELSE LET half == open_case_loop(n \div 2, S, outcomes, price)
         IN  IF half = {} THEN {} ELSE open_case_loop(n - (n \div 2), half, outcomes, price)

clamp_times_no_floor(times) == Min2(MAX_TIMES, times)
clamp_times(times) == Max2(MIN_TIMES, Min2(MAX_TIMES, times))

-----------------------------------------------------------------------------
(* Returning from a call *)

Ret(op, args, ok, message) ==
    [op |-> op, args |-> args, ok |-> ok, message |-> message, results |-> <<>>, attempts |-> 0,
     last_draw |-> None]

\* The call ends after save(): the whole aggregate is written out
Saved(r, i, inv, h, st, se, response, ids) ==
    /\ rarities' = r
    /\ items' = i
    /\ inventory' = inv
    /\ history' = h
    /\ stats' = st
    /\ settings' = se
    /\ disk' = Doc(r, i, inv, h, st, se)
    /\ ret' = response
    /\ nextId' = nextId + ids
    /\ calls' = calls - 1

\* The call ends without save(): the aggregate in memory is as the handler left it
NotSaved(r, i, inv, h, st, se, response, ids) ==
    /\ rarities' = r
    /\ items' = i
    /\ inventory' = inv
    /\ history' = h
    /\ stats' = st
    /\ settings' = se
    /\ disk' = disk
    /\ ret' = response
    /\ nextId' = nextId + ids
    /\ calls' = calls - 1

-----------------------------------------------------------------------------
(* The operations of DataStore *)

OpenCase(n) ==
    /\ calls > 0
    /\ LET times == clamp_times(n)
           v == validate_rarity_ranges(rarities, settings)
           start == [inventory |-> inventory, stats |-> stats, result |-> <<>>, attempts |-> 0,
                     last_draw |-> None]
       IN  IF ~v.ok
           THEN NotSaved(rarities, items, inventory, history, stats, settings,
                         Ret("open_case", [times |-> n], FALSE, v.message), 0)
           ELSE \E fin \in open_case_loop(times, {start},
                                          DrawOutcomes(rarities, items, settings),
                                          settings.open_price) :
                    Saved(rarities, items, fin.inventory,
                          append_history(history, nextId, "open_case",
                                         [times |-> times,
                                          results |-> Prefix(fin.result, HISTORY_RESULTS),
                                          count_results |-> Len(fin.result)]),
                          fin.stats, settings,
                          [Ret("open_case", [times |-> n], TRUE, MsgOk)
                               EXCEPT !.results = fin.result, !.attempts = fin.attempts,
                                      !.last_draw = fin.last_draw],
                          1)

add_rarity_no_rollback(appended) == appended
\* self.data["rarities"].pop()
add_rarity_rollback(appended) == SubSeq(appended, 1, Len(appended) - 1)

AddRarity(p) ==
    /\ calls > 0
    /\ LET entry == Rarity(nextId, p.name, p.min_roll, p.max_roll, Get(p, "color", "#888888"))
           appended == Append(rarities, entry)
           v == validate_rarity_ranges(appended, settings)
       IN  IF ~v.ok
           THEN NotSaved(add_rarity_rollback(appended), items, inventory, history, stats, settings,
                         Ret("add_rarity", p, FALSE, v.message), 1)
           ELSE Saved(appended, items, inventory,
                      append_history(history, nextId + 1, "add_rarity", entry),
                      stats, settings, Ret("add_rarity", p, TRUE, MsgOk), 2)

UpdateRarity(rarity_id, p) ==
    /\ calls > 0
    /\ LET found == {k \in 1..Len(rarities) : rarities[k].id = rarity_id}
           args == [rarity_id |-> rarity_id, payload |-> p]
       IN  IF found = {}
           THEN NotSaved(rarities, items, inventory, history, stats, settings,
                         Ret("update_rarity", args, FALSE, MsgRarityNotFound), 0)
           ELSE LET k == MinOf(found)
                    rarity == [rarities[k] EXCEPT !.name = Get(p, "name", @),
                                                  !.min_roll = Get(p, "min_roll", @),
                                                  !.max_roll = Get(p, "max_roll", @),
                                                  !.color = Get(p, "color", @)]
                    rars == [rarities EXCEPT ![k] = rarity]
                    seen == ShareRarity(history, rarity)
                    v == validate_rarity_ranges(rars, settings)
                IN  IF ~v.ok
                    THEN NotSaved(rars, items, inventory, seen, stats, settings,
                                  Ret("update_rarity", args, FALSE, v.message), 0)
                    ELSE Saved(rars, items, inventory,
                               append_history(seen, nextId, "update_rarity", rarity),
                               stats, settings, Ret("update_rarity", args, TRUE, MsgOk), 1)

delete_rarity_unchecked(its, rarity_id) == FALSE
\* any(i["rarity_id"] == rarity_id for i in self.data["items"])
is_referenced(its, rarity_id) == \E k \in 1..Len(its) : its[k].rarity_id = rarity_id

DeleteRarity(rarity_id) ==
    /\ calls > 0
    /\ LET args == [rarity_id |-> rarity_id]
           kept == SelectSeq(rarities, LAMBDA r : r.id # rarity_id)
       IN  IF is_referenced(items, rarity_id)
           THEN NotSaved(rarities, items, inventory, history, stats, settings,
                         Ret("delete_rarity", args, FALSE, MsgRarityInUse), 0)
           ELSE IF Len(kept) = Len(rarities)
           THEN NotSaved(kept, items, inventory, history, stats, settings,
                         Ret("delete_rarity", args, FALSE, MsgRarityNotFound), 0)
           ELSE Saved(kept, items, inventory,
                      append_history(history, nextId, "delete_rarity", args),
                      stats, settings, Ret("delete_rarity", args, TRUE, MsgOk), 1)

AddItem(p) ==
    /\ calls > 0
    /\ IF p.rarity_id \notin rarity_map
       THEN NotSaved(rarities, items, inventory, history, stats, settings,
                     Ret("add_item", p, FALSE, MsgNoSuchRarity), 0)
       ELSE LET item == Item(nextId, p.name, p.rarity_id, Get(p, "weight", 1),
                             Get(p, "image_path", ""), Get(p, "description", ""))
            IN  Saved(rarities, Append(items, item), inventory,
                      append_history(history, nextId + 1, "add_item", item),
                      stats, settings, Ret("add_item", p, TRUE, MsgOk), 2)

UpdateItem(item_id, p) ==
    /\ calls > 0
    /\ LET found == {k \in 1..Len(items) : items[k].id = item_id}
           args == [item_id |-> item_id, payload |-> p]
       IN  IF found = {}
           THEN NotSaved(rarities, items, inventory, history, stats, settings,
                         Ret("update_item", args, FALSE, MsgItemNotFound), 0)
           ELSE IF "rarity_id" \in DOMAIN p /\ p.rarity_id \notin rarity_map
           THEN NotSaved(rarities, items, inventory, history, stats, settings,
                         Ret("update_item", args, FALSE, MsgNoSuchRarity), 0)
           ELSE LET k == MinOf(found)
                    item == [items[k] EXCEPT !.name = Get(p, "name", @),
                                             !.rarity_id = Get(p, "rarity_id", @),
                                             !.weight = Get(p, "weight", @),
                                             !.image_path = Get(p, "image_path", @),
                                             !.description = Get(p, "description", @)]
                IN  Saved(rarities, [items EXCEPT ![k] = item], inventory,
                          append_history(ShareItem(history, item), nextId, "update_item", item),
                          stats, settings, Ret("update_item", args, TRUE, MsgOk), 1)

DeleteItem(item_id) ==
    /\ calls > 0
    /\ LET args == [item_id |-> item_id]
           kept == SelectSeq(items, LAMBDA i : i.id # item_id)
       IN  IF Len(kept) = Len(items)
           THEN NotSaved(rarities, kept, inventory, history, stats, settings,
                         Ret("delete_item", args, FALSE, MsgItemNotFound), 0)
           ELSE Saved(rarities, kept, Pop(inventory, item_id),
                      append_history(history, nextId, "delete_item", args),
                      stats, settings, Ret("delete_item", args, TRUE, MsgOk), 1)

adjust_allows_negative(new_val) == FALSE
\* if new_val < 0
is_insufficient(new_val) == new_val < 0

set_quantity_keep_zero(inv, item_id, new_val) == Put(inv, item_id, new_val)
\* if new_val == 0: pop(item_id, None) else: inventory[item_id] = new_val
set_quantity(inv, item_id, new_val) ==
    IF new_val = 0 THEN Pop(inv, item_id) ELSE Put(inv, item_id, new_val)

AdjustInventory(item_id, delta) ==
    /\ calls > 0
    /\ LET args == [item_id |-> item_id, delta |-> delta]
           cur == Get(inventory, item_id, 0)
           new_val == cur + delta
           action == IF delta < 0 THEN "consume_item" ELSE "add_inventory"
       IN  IF item_id \notin item_map
           THEN NotSaved(rarities, items, inventory, history, stats, settings,
                         Ret("adjust_inventory", args, FALSE, MsgItemNotFound), 0)
           ELSE IF is_insufficient(new_val)
           THEN NotSaved(rarities, items, inventory, history, stats, settings,
                         Ret("adjust_inventory", args, FALSE, MsgInsufficient), 0)
           ELSE Saved(rarities, items, set_quantity(inventory, item_id, new_val),
                      append_history(history, nextId, action, args),
                      stats, settings, Ret("adjust_inventory", args, TRUE, MsgOk), 1)

UpdateSettings(p) ==
    /\ calls > 0
    /\ LET s == [settings EXCEPT !.roll_min = Get(p, "roll_min", @),
                                 !.roll_max = Get(p, "roll_max", @),
                                 !.open_price = Get(p, "open_price", @)]
           seen == ShareSettings(history, s)
           v == validate_rarity_ranges(rarities, s)
       IN  IF ~v.ok
           THEN NotSaved(rarities, items, inventory, seen, stats, s,
                         Ret("update_settings", p, FALSE, v.message), 0)
           ELSE Saved(rarities, items, inventory,
                      append_history(seen, nextId, "update_settings", s),
                      stats, s, Ret("update_settings", p, TRUE, MsgOk), 1)

ClearHistory ==
    /\ calls > 0
    /\ Saved(rarities, items, inventory, <<>>, stats, settings,
             Ret("clear_history", EmptyDict, TRUE, MsgOk), 0)

reset_stats_keeps_by_item ==
    [total_opened |-> 0, total_spent |-> 0, by_rarity |-> EmptyDict, by_item |-> stats.by_item]
\* the dict reset_stats assigns to self.data["stats"]
reset_stats_value ==
    [total_opened |-> 0, total_spent |-> 0, by_rarity |-> EmptyDict, by_item |-> EmptyDict]

ResetStats ==
    /\ calls > 0
    /\ Saved(rarities, items, inventory,
             append_history(history, nextId, "reset_stats", EmptyDict),
             reset_stats_value, settings, Ret("reset_stats", EmptyDict, TRUE, MsgOk), 1)

\* API.get_state
GetState ==
    /\ calls > 0
    /\ NotSaved(rarities, items, inventory, history, stats, settings,
                Ret("get_state", EmptyDict, TRUE, MsgOk), 0)

-----------------------------------------------------------------------------
(* Construction: DataStore.__init__ and _load_or_create_defaults *)

\* The rarities seeded when the catalog has none; id is the first fresh uuid
seed_rarities(id) ==
    << Rarity(id, "Common", R(0), R(60), "#b0b0b0"),
       Rarity(id + 1, "Rare", R(60), R(85), "#4f8cff"),
       Rarity(id + 2, "Epic", R(85), R(97), "#bb6eff"),
       Rarity(id + 3, "Legendary", R(97), R(100), "#ff9f1a") >>

\* The items seeded when the catalog has none, one for each of r[0] .. r[3]
seed_items(r, id) ==
    << Item(id, "Old knife", r[1].id, 10, "", "Simple item"),
       Item(id + 1, "Shining pistol", r[2].id, 6, "", "Rare find"),
       Item(id + 2, "Crystal sword", r[3].id, 3, "", "Very valuable"),
       Item(id + 3, "Dragon crown", r[4].id, 1, "", "Almost never drops") >>

\* No persisted file: the default catalog is seeded and saved
DefaultRarities == seed_rarities(1)

DefaultItems == seed_items(DefaultRarities, 5)

DefaultSettingsOnGrid == [DefaultSettings EXCEPT !.roll_min = R(@), !.roll_max = R(@)]

Init ==
    /\ rarities = DefaultRarities
    /\ items = DefaultItems
    /\ inventory = EmptyDict
    /\ history = <<>>
    /\ stats = DefaultStats
    /\ settings = DefaultSettingsOnGrid
    /\ disk = Doc(DefaultRarities, DefaultItems, EmptyDict, <<>>, DefaultStats, DefaultSettingsOnGrid)
    /\ ret = Ret("init", EmptyDict, TRUE, MsgOk)
    /\ nextId = 9
    /\ calls = MaxOps

\* A persisted file written by an earlier session: the catalog was cut down to one
\* rarity [0, 50] with one item, the history was cleared, and the item was then
\* credited by hand len times (one add_inventory entry each)
LoadedRarities == << Rarity(1, "Common", R(0), R(50), "#b0b0b0") >>
LoadedItems == << Item(5, "Old knife", 1, 1, "", "Simple item") >>
LoadedHistory(len) ==
    [k \in 1..len |-> Entry(10 + (len - k), "add_inventory", [item_id |-> 5, delta |-> 1])]
LoadedDoc(len) ==
    Doc(LoadedRarities, LoadedItems, [x \in {5} |-> len], LoadedHistory(len),
        DefaultStats, DefaultSettingsOnGrid)

InitLoaded ==
    \E len \in {HISTORY_LIMIT - 1, HISTORY_LIMIT} :
        /\ rarities = LoadedRarities
        /\ items = LoadedItems
        /\ inventory = LoadedDoc(len).inventory
        /\ history = LoadedHistory(len)
        /\ stats = DefaultStats
        /\ settings = DefaultSettingsOnGrid
        /\ disk = LoadedDoc(len)
        /\ ret = Ret("init", EmptyDict, TRUE, MsgOk)
        /\ nextId = 10 + len
        /\ calls = MaxLoadedOps

-----------------------------------------------------------------------------
(* Construction from a persisted file, step by step *)

\* What can be found at self.path.  A file that json.load turns into an object is
\* that object (a record with some of the keys of the document); the other files
\* are named by what happens when they are read.
FileMissing == [kind |-> "missing"]
\* open() or read() raises OSError (no read permission); the path can be written
FileUnreadable == [kind |-> "OSError"]
\* text that is not JSON: json.load raises JSONDecodeError
FileNotJson == [kind |-> "JSONDecodeError"]
\* bytes that are not UTF-8: read() raises UnicodeDecodeError
FileNotUtf8 == [kind |-> "UnicodeDecodeError"]
\* JSON text whose value is a number: dict.update raises TypeError
FileNotObject == [kind |-> "TypeError"]

IsDocument(file) == "kind" \notin DOMAIN file

\* except (json.JSONDecodeError, OSError): pass
caught == {"JSONDecodeError", "OSError"}

\* self.data as __init__ builds it
InitialData == Doc(<<>>, <<>>, EmptyDict, <<>>, DefaultStats, DefaultSettingsOnGrid)

\* self.data.update(loaded), for an object with keys of the document
data_update(data, loaded) ==
    [k \in DOMAIN data |-> IF k \in DOMAIN loaded THEN loaded[k] ELSE data[k]]

\* The exception the try block lets through, or "none"
load_raises(file) ==
    IF file = FileMissing \/ IsDocument(file) \/ file.kind \in caught THEN "none" ELSE file.kind

\* self.data after the try block
loaded_data(file) == IF IsDocument(file) THEN data_update(InitialData, file) ELSE InitialData

\* _load_or_create_defaults: the exception that ends it ("none" when it returns),
\* self.data at that point, and the number of uuids taken
load_or_create_defaults(file, id) ==
    LET data == loaded_data(file)
        seed_r == data.rarities = <<>>
        r == IF seed_r THEN seed_rarities(id) ELSE data.rarities
        item_id == IF seed_r THEN id + 4 ELSE id
        with_r == [data EXCEPT !.rarities = r]
    IN  IF load_raises(file) # "none"
        THEN [raised |-> load_raises(file), data |-> InitialData, ids |-> 0]
        ELSE IF data.items # <<>>
        THEN [raised |-> "none", data |-> with_r, ids |-> item_id - id]
        ELSE IF Len(r) < 4
        THEN [raised |-> "IndexError", data |-> with_r, ids |-> item_id - id + Len(r) + 1]
        ELSE [raised |-> "none", data |-> [with_r EXCEPT !.items = seed_items(r, item_id)],
              ids |-> item_id - id + 4]

MsgRaised(exception) == [kind |-> exception, names |-> <<>>]

\* DataStore(path): the constructor returns after save(), or ends with the
\* exception, and then there is no store to call
LoadOrCreateDefaults ==
    /\ ret.op = "boot"
    /\ LET out == load_or_create_defaults(disk, nextId)
       IN  /\ rarities' = out.data.rarities
           /\ items' = out.data.items
           /\ inventory' = out.data.inventory
           /\ history' = out.data.history
           /\ stats' = out.data.stats
           /\ settings' = out.data.settings
           /\ nextId' = nextId + out.ids
           /\ IF out.raised = "none"
              THEN /\ disk' = out.data
                   /\ ret' = Ret("init", EmptyDict, TRUE, MsgOk)
                   /\ calls' = MaxStartupOps
              ELSE /\ disk' = disk
                   /\ ret' = Ret("init", EmptyDict, FALSE, MsgRaised(out.raised))
                   /\ calls' = 0

\* A document whose catalog is stored in an order that is not the sorted one (the
\* upper band first), as after deleting the lower rarity and adding it again
UnsortedRarities ==
    << Rarity(1, "Rare", R(60), R(100), "#4f8cff"),
       Rarity(2, "Common", R(0), R(60), "#b0b0b0") >>
UnsortedItems ==
    << Item(5, "Shining pistol", 1, 6, "", "Rare find"),
       Item(6, "Old knife", 2, 10, "", "Simple item") >>
UnsortedDoc ==
    Doc(UnsortedRarities, UnsortedItems, EmptyDict, <<>>, DefaultStats, DefaultSettingsOnGrid)

\* Documents found at startup: {}, a catalog of one rarity without items, items
\* without rarities, and whole documents
StartupDocuments ==
    { <<>>, [rarities |-> LoadedRarities], [items |-> LoadedItems], LoadedDoc(2), UnsortedDoc }

StartupFiles ==
    {FileMissing, FileUnreadable, FileNotJson, FileNotUtf8, FileNotObject} \cup StartupDocuments

\* A uuid no document found at startup holds
FirstFreshId(file) == IF IsDocument(file) /\ file # <<>> THEN 20 ELSE 1

\* Before DataStore(path) runs: there is no store yet, and no call can be made
InitStartup ==
    \E file \in StartupFiles :
        /\ rarities = InitialData.rarities
        /\ items = InitialData.items
        /\ inventory = InitialData.inventory
        /\ history = InitialData.history
        /\ stats = InitialData.stats
        /\ settings = InitialData.settings
        /\ disk = file
        /\ ret = Ret("boot", EmptyDict, TRUE, MsgOk)
        /\ nextId = FirstFreshId(file)
        /\ calls = 0

-----------------------------------------------------------------------------
(* The validator on its own, on catalogs a persisted file can hold *)

BandLimits == {R(0), R(50), R(100)}
BandNames == <<"Common", "Rare", "Epic", "Legendary">>

\* Catalogs of up to MaxBands rarities with limits among BandLimits, in any order
Catalogs ==
    UNION { [1..n -> BandLimits \X BandLimits] : n \in 0..MaxBands }

CatalogOf(c) ==
    [k \in 1..Len(c) |-> Rarity(k, BandNames[k], c[k][1], c[k][2], "#888888")]

ValidatorSettings ==
    { [DefaultSettings EXCEPT !.roll_min = R(lo), !.roll_max = R(hi)] :
        <<lo, hi>> \in {<<0, 100>>, <<100, 100>>, <<100, 0>>} }

InitValidate ==
    \E c \in Catalogs, sett \in ValidatorSettings :
        /\ rarities = CatalogOf(c)
        /\ items = <<>>
        /\ inventory = EmptyDict
        /\ history = <<>>
        /\ stats = DefaultStats
        /\ settings = sett
        /\ disk = Doc(CatalogOf(c), <<>>, EmptyDict, <<>>, DefaultStats, sett)
        /\ ret = Ret("init", EmptyDict, TRUE, MsgOk)
        /\ nextId = MaxBands + 1
        /\ calls = 1

\* A call of _validate_rarity_ranges on its own
ValidateRarityRanges ==
    /\ calls > 0
    /\ LET v == validate_rarity_ranges(rarities, settings)
       IN  NotSaved(rarities, items, inventory, history, stats, settings,
                    Ret("_validate_rarity_ranges", EmptyDict, v.ok, v.message), 0)

-----------------------------------------------------------------------------
(* The requests explored *)

\* An id no rarity or item ever has
MissingId == 0

\* The first and the last rarity of the catalog, and a missing id
RarityTargets ==
    {MissingId} \cup (IF rarities = <<>> THEN {} ELSE {rarities[1].id, rarities[Len(rarities)].id})

\* The first and the last item of the catalog, and a missing id
ItemTargets ==
    {MissingId} \cup (IF items = <<>> THEN {} ELSE {items[1].id, items[Len(items)].id})

SmallTimes == {0, 2}
ClampTimes == {-1, 0, 1, MAX_TIMES - 1, MAX_TIMES, MAX_TIMES + 1, 3 * MAX_TIMES}

AddRarityPayloads ==
    { [name |-> "Mythic", min_roll |-> R(50), max_roll |-> R(70)],
      [name |-> "Mythic", min_roll |-> R(100), max_roll |-> R(120), color |-> "#ffffff"],
      [name |-> "Mythic", min_roll |-> R(70), max_roll |-> R(50)],
      [name |-> "Mythic", min_roll |-> R(60), max_roll |-> R(60)] }

UpdateRarityPayloads ==
    { [max_roll |-> R(70)],
      [min_roll |-> R(90)],
      [max_roll |-> R(50)],
      [max_roll |-> R(60) - 1],
      [name |-> "Renamed", color |-> "#000000"] }

AddItemPayloads ==
    { [name |-> "New item", rarity_id |-> rid] : rid \in RarityTargets }
    \cup { [name |-> "Dud", rarity_id |-> rid, weight |-> 0] : rid \in RarityTargets \ {MissingId} }

UpdateItemPayloads ==
    { [weight |-> 0], [name |-> "Renamed item", weight |-> 4] }
    \cup { [rarity_id |-> rid] : rid \in RarityTargets }

Deltas == {-2, -1, 0, 1}

UpdateSettingsPayloads ==
    { [roll_min |-> R(100)],
      [roll_min |-> R(200), open_price |-> 5],
      [open_price |-> 3],
      [roll_max |-> R(50)] }

-----------------------------------------------------------------------------
(* Specifications *)

Next ==
    \/ \E n \in SmallTimes : OpenCase(n)
    \/ \E p \in AddRarityPayloads : AddRarity(p)
    \/ \E id \in RarityTargets, p \in UpdateRarityPayloads : UpdateRarity(id, p)
    \/ \E id \in RarityTargets : DeleteRarity(id)
    \/ \E p \in AddItemPayloads : AddItem(p)
    \/ \E id \in ItemTargets, p \in UpdateItemPayloads : UpdateItem(id, p)
    \/ \E id \in ItemTargets : DeleteItem(id)
    \/ \E id \in ItemTargets, delta \in Deltas : AdjustInventory(id, delta)
    \/ \E p \in UpdateSettingsPayloads : UpdateSettings(p)
    \/ ClearHistory
    \/ ResetStats
    \/ GetState

\* From the seeded default state
Spec == Init /\ [][Next]_vars

\* Large batches are explored as the first call after construction only
NextLoaded ==
    \/ \E n \in ClampTimes : ret.op = "init" /\ OpenCase(n)
    \/ Next

\* From a loaded document whose history is one entry short of the limit, or at it
SpecLoaded == InitLoaded /\ [][NextLoaded]_vars

\* From the persisted file, whatever it holds, through the constructor
NextStartup ==
    \/ LoadOrCreateDefaults
    \/ Next

SpecStartup == InitStartup /\ [][NextStartup]_vars

\* The validator applied to each catalog and settings
NextValidate == ValidateRarityRanges

SpecValidate == InitValidate /\ [][NextValidate]_vars

-----------------------------------------------------------------------------
(* Properties *)

\* The aggregate held in memory
Aggregate == Doc(rarities, items, inventory, history, stats, settings)

IdsOf(h) == [k \in 1..Len(h) |-> h[k].id]

\* The number of results whose rarity or item (field) has the given id
CountResults(rs, field, id) == Cardinality({k \in 1..Len(rs) : rs[k][field].id = id})

\* Two bands share more than a limit
BandsOverlap(a, b) == a.min_roll < b.max_roll /\ b.min_roll < a.max_roll

\* C1: an add_rarity call that is rejected leaves rarities (contents and order),
\* settings, items, inventory, stats and history exactly as they were, and a new
\* band that overlaps a band of a catalog that was valid is rejected with the
\* overlap message.
C1_AddRarityRejectedLeavesAggregate ==
    [][ ret'.op = "add_rarity" =>
          /\ ~ret'.ok => /\ Aggregate' = Aggregate
                         /\ ret'.message.kind \in {"ranges overlap", "min_roll > max_roll",
                                                   "roll_min must be less than roll_max"}
          /\ ( /\ validate_rarity_ranges(rarities, settings).ok
               /\ ret'.args.min_roll <= ret'.args.max_roll
               /\ \E k \in 1..Len(rarities) : BandsOverlap(ret'.args, rarities[k]) )
             => ~ret'.ok /\ ret'.message.kind = "ranges overlap" ]_vars

\* C1 witness: [50, 70] was refused with the overlap message naming Common, and the
\* catalog is the default catalog with Rare [60, 85] in it.
C1_Witness ==
    /\ ret.op = "add_rarity" /\ ~ret.ok
    /\ ret.args.min_roll = R(50) /\ ret.args.max_roll = R(70)
    /\ ret.message = MsgOverlap("Common", "Mythic")
    /\ rarities = DefaultRarities

\* C2 (as claimed): an update_rarity call that is rejected by validation leaves the
\* rarity's name, min_roll, max_roll and color, and the rest of the aggregate, as
\* they were.
C2_UpdateRarityRejectedLeavesAggregate ==
    [][ (ret'.op = "update_rarity" /\ ~ret'.ok) => Aggregate' = Aggregate ]_vars

\* C3 (as claimed): an update_settings call that is rejected by validation leaves
\* roll_min, roll_max and open_price, and the rest of the aggregate, as they were.
C3_UpdateSettingsRejectedLeavesAggregate ==
    [][ (ret'.op = "update_settings" /\ ~ret'.ok) => Aggregate' = Aggregate ]_vars

\* C4: an open_case call returning k results raises total_opened by k, total_spent
\* by k times open_price, and inventory[i], by_item[i], by_rarity[r] by the number
\* of results with item i, resp. rarity r; draws without a result change nothing.
C4_OpenCaseBookkeeping ==
    [][ (ret'.op = "open_case" /\ ret'.ok) =>
          LET rs == ret'.results
              k == Len(rs)
          IN  /\ stats'.total_opened = stats.total_opened + k
              /\ stats'.total_spent = stats.total_spent + k * settings.open_price
              /\ \A id \in 0..nextId :
                    /\ Get(inventory', id, 0) = Get(inventory, id, 0) + CountResults(rs, "item", id)
                    /\ Get(stats'.by_item, id, 0) = Get(stats.by_item, id, 0) + CountResults(rs, "item", id)
                    /\ Get(stats'.by_rarity, id, 0) =
                          Get(stats.by_rarity, id, 0) + CountResults(rs, "rarity", id)
              /\ DOMAIN inventory' \subseteq 0..nextId
              /\ DOMAIN stats'.by_item \subseteq 0..nextId
              /\ DOMAIN stats'.by_rarity \subseteq 0..nextId ]_vars

\* C4 witness: a batch of two draws, of which one gave a result and one did not.
C4_Witness ==
    /\ ret.op = "open_case" /\ ret.ok
    /\ ret.attempts = 2 /\ Len(ret.results) = 1
    /\ stats.total_opened = 1

\* C5: open_case(n) is rejected only when validation fails, never because of n; it
\* runs exactly min(100, max(1, n)) draws, returns at most that many results, and
\* its history entry records that number as times.
C5_OpenCaseClamps ==
    [][ ret'.op = "open_case" =>
          LET n == ret'.args.times
              clamped == IF n < 1 THEN 1 ELSE IF n > 100 THEN 100 ELSE n
          IN  /\ ret'.ok <=> validate_rarity_ranges(rarities, settings).ok
              /\ ret'.ok => /\ ret'.attempts = clamped
                            /\ Len(ret'.results) <= clamped
                            /\ history'[1].action = "open_case"
                            /\ history'[1].payload.times = clamped ]_vars

\* C5 witness: open_case(300) ran 100 draws, all of them with a result.
C5_Witness ==
    /\ ret.op = "open_case" /\ ret.ok
    /\ ret.args.times = 3 * MAX_TIMES
    /\ ret.attempts = 100 /\ Len(ret.results) = 100
    /\ history[1].payload.times = 100 /\ history[1].payload.count_results = 100

\* C6: adjust_inventory on an existing item is refused, leaving inventory, history
\* and stats as they were, when current + delta < 0; otherwise the quantity becomes
\* current + delta, an absent entry counting as 0, and no other entry changes.
C6_AdjustInventory ==
    [][ (ret'.op = "adjust_inventory" /\ ret'.args.item_id \in item_map) =>
          LET id == ret'.args.item_id
              sum == Get(inventory, id, 0) + ret'.args.delta
          IN  IF sum < 0
              THEN /\ ~ret'.ok /\ ret'.message = MsgInsufficient
                   /\ inventory' = inventory /\ history' = history /\ stats' = stats
              ELSE /\ ret'.ok
                   /\ Get(inventory', id, 0) = sum
                   /\ \A other \in (DOMAIN inventory \cup DOMAIN inventory') \ {id} :
                         Get(inventory', other, 0) = Get(inventory, other, 0) ]_vars

\* C6 witness: an item held in the inventory was asked for more than there is.
C6_Witness ==
    /\ ret.op = "adjust_inventory" /\ ~ret.ok /\ ret.message = MsgInsufficient
    /\ ret.args.item_id \in DOMAIN inventory
    /\ inventory[ret.args.item_id] + ret.args.delta < 0

\* C7: delete_rarity(id) fails with the rarity-in-use error exactly when an item has
\* rarity_id = id, and then the aggregate is unchanged; when no item refers to a
\* rarity of the catalog, that rarity is removed, the others keep their order, and
\* one history entry is prepended; an id that is in neither is reported not found.
C7_DeleteRarity ==
    [][ ret'.op = "delete_rarity" =>
          LET id == ret'.args.rarity_id
              referenced == \E k \in 1..Len(items) : items[k].rarity_id = id
              at == {k \in 1..Len(rarities) : rarities[k].id = id}
          IN  /\ (~ret'.ok /\ ret'.message = MsgRarityInUse) <=> referenced
              /\ referenced => Aggregate' = Aggregate
              /\ (~referenced /\ at # {}) =>
                    /\ ret'.ok
                    /\ \E k \in at : rarities' = SubSeq(rarities, 1, k - 1)
                                                 \o SubSeq(rarities, k + 1, Len(rarities))
                    /\ \A k \in 1..Len(rarities') : rarities'[k].id # id
                    /\ Len(history') = Len(history) + 1
                    /\ history'[1].action = "delete_rarity"
                    /\ history'[1].payload.rarity_id = id
                    /\ Tail(history') = history
              /\ (~referenced /\ at = {}) =>
                    ~ret'.ok /\ ret'.message = MsgRarityNotFound ]_vars

\* C7 witness: the first rarity of the default catalog was deleted once no item
\* referred to it; the other three follow in their order.
C7_Witness ==
    /\ ret.op = "delete_rarity" /\ ret.ok /\ ret.args.rarity_id = 1
    /\ rarities = Tail(DefaultRarities)
    /\ history[1].action = "delete_rarity"

\* C8: the history never holds more than 500 entries; a call either leaves the
\* entries and their order alone, clears them all, or puts one new entry at index
\* 0 in front of the older ones in their order and drops what then lies beyond
\* index 499, the oldest.
C8_HistoryBounded ==
    [][ /\ Len(history) <= 500 /\ Len(history') <= 500
        /\ \/ IdsOf(history') = IdsOf(history)
           \/ ret'.op = "clear_history" /\ history' = <<>>
           \/ /\ Len(history') = Min2(Len(history) + 1, 500)
              /\ \A k \in 1..Len(history) : history'[1].id # history[k].id
              /\ \A k \in 2..Len(history') : history'[k].id = history[k - 1].id ]_vars

\* C8 witness: an entry was added to a full history; the oldest one (id 10) is gone
\* and the one before it is now last.
C8_Witness ==
    /\ Len(history) = HISTORY_LIMIT
    /\ history[1].action = "reset_stats"
    /\ history[HISTORY_LIMIT].id = 11

\* C9 (as claimed): every successful open_case, add_rarity, update_rarity,
\* delete_rarity, add_item, update_item, delete_item, adjust_inventory,
\* update_settings and reset_stats call prepends exactly one entry, clear_history
\* appends none, and a call that appends no entry has changed neither catalog,
\* settings, inventory nor stats.
C9_OneEntryPerMutation ==
    [][ LET appended == /\ Len(history') = Min2(Len(history) + 1, HISTORY_LIMIT)
                        /\ \A k \in 1..Len(history) : history'[1].id # history[k].id
                        /\ \A k \in 2..Len(history') : history'[k].id = history[k - 1].id
        IN  /\ (ret'.ok /\ ret'.op \notin {"clear_history", "get_state"}) => appended
            /\ ret'.op = "clear_history" => history' = <<>>
            /\ ~appended => /\ rarities' = rarities
                            /\ items' = items
                            /\ settings' = settings
                            /\ inventory' = inventory
                            /\ stats' = stats ]_vars

\* The rolls at which the set of matching bands can change: the limits of the
\* bands and of the roll range, and their neighbours on the grid
RollProbes(rars, sett) ==
    LET marks == {sett.roll_min, sett.roll_max}
                 \cup {rars[k].min_roll : k \in 1..Len(rars)}
                 \cup {rars[k].max_roll : k \in 1..Len(rars)}
    IN  {x \in UNION {{m - 1, m, m + 1} : m \in marks} : sett.roll_min <= x /\ x < sett.roll_max}

Matching(rars, roll) == {k \in 1..Len(rars) : rars[k].min_roll <= roll /\ roll <= rars[k].max_roll}

\* C10 (as claimed): when validation passes, every roll in [roll_min, roll_max) is
\* in the band of exactly one rarity.
C10_ExactlyOneRarity ==
    validate_rarity_ranges(rarities, settings).ok =>
        \A roll \in RollProbes(rarities, settings) : Cardinality(Matching(rarities, roll)) = 1

\* C10 (amended): when validation passes, two distinct rarities contain the same
\* roll of [roll_min, roll_max) only if the roll is the max_roll of one and the
\* min_roll of the other; a roll strictly inside a band is in no other band.
C10_BandsMeetOnlyAtLimits ==
    validate_rarity_ranges(rarities, settings).ok =>
        \A roll \in RollProbes(rarities, settings) :
            \A i, j \in Matching(rarities, roll) :
                i # j => \/ rarities[i].max_roll = roll /\ rarities[j].min_roll = roll
                         \/ rarities[j].max_roll = roll /\ rarities[i].min_roll = roll

\* C10 witness: a valid catalog in which one roll is in two bands and another roll
\* of the range is in none.
C10_Witness ==
    /\ validate_rarity_ranges(rarities, settings).ok
    /\ \E roll \in RollProbes(rarities, settings) : Cardinality(Matching(rarities, roll)) = 2
    /\ \E roll \in RollProbes(rarities, settings) : Matching(rarities, roll) = {}

\* The ids held by a sequence of rarity or item dicts
Ids(seq) == {seq[k].id : k \in 1..Len(seq)}

\* Every item of its names a rarity of rars
ItemsReferToRarities(its, rars) == \A k \in 1..Len(its) : its[k].rarity_id \in Ids(rars)

\* C11: before and after every call, every item's rarity_id is the id of a rarity
\* of the catalog; add_item and update_item naming an id that is no rarity fail and
\* leave the items list as it was, and delete_rarity of a rarity some item refers
\* to fails and leaves the rarities as they were.
C11_ItemsReferToRarities ==
    [][ /\ ItemsReferToRarities(items, rarities)
        /\ ItemsReferToRarities(items', rarities')
        /\ (ret'.op = "add_item" /\ ret'.args.rarity_id \notin Ids(rarities)) =>
              ~ret'.ok /\ ret'.message = MsgNoSuchRarity /\ items' = items
        /\ ( /\ ret'.op = "update_item"
             /\ "rarity_id" \in DOMAIN ret'.args.payload
             /\ ret'.args.payload.rarity_id \notin Ids(rarities) ) =>
              ~ret'.ok /\ items' = items
        /\ ( /\ ret'.op = "delete_rarity"
             /\ \E k \in 1..Len(items) : items[k].rarity_id = ret'.args.rarity_id ) =>
              ~ret'.ok /\ rarities' = rarities ]_vars

\* C11 witness: update_item asked an item of the catalog to move to a rarity that
\* does not exist and was refused; the items are the seeded ones.
C11_Witness ==
    /\ ret.op = "update_item" /\ ~ret.ok /\ ret.message = MsgNoSuchRarity
    /\ ret.args.item_id \in Ids(items)
    /\ ret.args.payload.rarity_id \notin Ids(rarities)
    /\ items = DefaultItems

\* C12: every inventory entry is an integer quantity of at least 1.
C12_InventoryQuantitiesPositive ==
    \A id \in DOMAIN inventory : inventory[id] \in Nat /\ inventory[id] >= 1

\* C12 witness: adjust_inventory took the last unit of an item (quantity 1, delta
\* -1) and the entry is gone from the mapping.
C12_Witness ==
    /\ ret.op = "adjust_inventory" /\ ret.ok /\ ret.args.delta = -1
    /\ ret.args.item_id \notin DOMAIN inventory
    /\ history[1].action = "consume_item"

\* C13: a call other than open_case and reset_stats leaves stats as they were;
\* reset_stats sets total_opened and total_spent to 0 and by_rarity and by_item to
\* {} and leaves rarities, items, settings and inventory as they were; total_opened
\* does not decrease in a call other than reset_stats.
C13_StatsFrame ==
    [][ /\ ret'.op \notin {"open_case", "reset_stats"} => stats' = stats
        /\ ret'.op = "reset_stats" =>
              /\ stats'.total_opened = 0 /\ stats'.total_spent = 0
              /\ DOMAIN stats'.by_rarity = {} /\ DOMAIN stats'.by_item = {}
              /\ rarities' = rarities /\ items' = items
              /\ settings' = settings /\ inventory' = inventory
        /\ ret'.op # "reset_stats" => stats'.total_opened >= stats.total_opened ]_vars

\* C13 witness: reset_stats was called after a batch that had credited an item;
\* the counters are back to zero and the inventory still holds the item.
C13_Witness ==
    /\ ret.op = "reset_stats"
    /\ Len(history) = 2 /\ history[2].action = "open_case"
    /\ history[2].payload.count_results > 0
    /\ DOMAIN inventory # {}
    /\ stats.total_opened = 0 /\ DOMAIN stats.by_item = {}

\* C15: update_rarity with an id that is no rarity, update_item, delete_item and
\* adjust_inventory with an id that is no item, and delete_rarity with an id that
\* is no rarity and that no item refers to, return ok:false with the not-found
\* message and leave the whole aggregate, history included, as it was.
C15_NotFoundLeavesAggregate ==
    [][ /\ (ret'.op = "update_rarity" /\ ret'.args.rarity_id \notin Ids(rarities)) =>
              ~ret'.ok /\ ret'.message = MsgRarityNotFound /\ Aggregate' = Aggregate
        /\ ( /\ ret'.op \in {"update_item", "delete_item", "adjust_inventory"}
             /\ ret'.args.item_id \notin Ids(items) ) =>
              ~ret'.ok /\ ret'.message = MsgItemNotFound /\ Aggregate' = Aggregate
        /\ ( /\ ret'.op = "delete_rarity"
             /\ ret'.args.rarity_id \notin Ids(rarities)
             /\ \A k \in 1..Len(items) : items[k].rarity_id # ret'.args.rarity_id ) =>
              ~ret'.ok /\ ret'.message = MsgRarityNotFound /\ Aggregate' = Aggregate ]_vars

\* C15 witness: adjust_inventory named an id that is no item, with a history that
\* already held an entry; it was refused as not found.
C15_Witness ==
    /\ ret.op = "adjust_inventory" /\ ~ret.ok /\ ret.message = MsgItemNotFound
    /\ ret.args.item_id \notin Ids(items)
    /\ Len(history) = 1

\* C16: every key of the inventory is the id of an item of the catalog.
C16_InventoryKeysAreItems == DOMAIN inventory \subseteq Ids(items)

\* C16 witness: an item that a batch had credited was deleted, and its inventory
\* entry went with it (the stats still count it).
C16_Witness ==
    /\ ret.op = "delete_item" /\ ret.ok
    /\ Len(history) = 2 /\ history[2].action = "open_case"
    /\ ret.args.item_id \in DOMAIN stats.by_item
    /\ ret.args.item_id \notin DOMAIN inventory

\* C18 (as claimed): in every state the rarities and settings held in memory pass
\* validation, and no open_case call has returned ok:false.
C18_MemoryAlwaysValid ==
    /\ validate_rarity_ranges(rarities, settings).ok
    /\ ret.op = "open_case" => ret.ok

\* C19 (as claimed): an entry that stays in the history keeps its action and its
\* payload, whatever call is made.
C19_HistoryEntriesNeverChange ==
    [][ \A k \in 1..Len(history) : \A j \in 1..Len(history') :
            history'[j].id = history[k].id =>
                /\ history'[j].action = history[k].action
                /\ history'[j].payload = history[k].payload ]_vars

\* C20 (as claimed): after every call the persisted document equals the aggregate
\* in memory, and a call that failed has changed neither of them.
C20_DiskEqualsMemory ==
    [][ /\ disk' = Aggregate'
        /\ ~ret'.ok => disk' = disk /\ Aggregate' = Aggregate ]_vars

\* For every two distinct rarities, one's min_roll is at least the other's max_roll
PairwiseApart(rars) ==
    \A i, j \in 1..Len(rars) :
        i # j => \/ rars[i].min_roll >= rars[j].max_roll
                 \/ rars[j].min_roll >= rars[i].max_roll

\* C14: the validator accepts exactly when roll_min < roll_max, every rarity has
\* min_roll <= max_roll, and every two distinct rarities are apart (one's min_roll
\* is at least the other's max_roll); when roll_min >= roll_max the message is the
\* settings one, whatever the rarities are.
C14_ValidatorIffPairwise ==
    [][ ret'.op = "_validate_rarity_ranges" =>
          /\ ret'.ok <=> /\ settings.roll_min < settings.roll_max
                         /\ \A k \in 1..Len(rarities) : rarities[k].min_roll <= rarities[k].max_roll
                         /\ PairwiseApart(rarities)
          /\ ret'.ok => ret'.message = MsgOk
          /\ settings.roll_min >= settings.roll_max => ret'.message = MsgRollMin ]_vars

\* C14 witness: three bands, stored in an order that is not the sorted one, two
\* of them sharing a limit, were accepted.
C14_Witness ==
    /\ ret.op = "_validate_rarity_ranges" /\ ret.ok
    /\ Len(rarities) = 3
    /\ rarities[1].min_roll > rarities[2].min_roll
    /\ \E i, j \in 1..3 : /\ i # j
                          /\ rarities[i].min_roll < rarities[i].max_roll
                          /\ rarities[j].min_roll < rarities[j].max_roll
                          /\ rarities[i].max_roll = rarities[j].min_roll

\* The fixed default aggregate, whatever the ids are
IsDefaultAggregate(r, i, inv, h, st, se) ==
    /\ [k \in 1..Len(r) |-> <<r[k].min_roll, r[k].max_roll>>] =
          << <<R(0), R(60)>>, <<R(60), R(85)>>, <<R(85), R(97)>>, <<R(97), R(100)>> >>
    /\ Len(i) = 4
    /\ \A k \in 1..4 : i[k].weight > 0 /\ i[k].rarity_id = r[k].id
    /\ DOMAIN inv = {}
    /\ h = <<>>
    /\ st.total_opened = 0 /\ st.total_spent = 0
    /\ DOMAIN st.by_rarity = {} /\ DOMAIN st.by_item = {}
    /\ se.roll_min = R(0) /\ se.roll_max = R(100) /\ se.open_price = 1

\* C17 (as claimed): the constructor, run on a missing file, on a file that cannot
\* be read, or on a file that cannot be parsed (text that is not JSON, bytes that
\* are not text), returns; the aggregate is then the fixed default one, passes
\* validation, and is what the file holds.
C17_StartupFallsBackToDefaults ==
    [][ (ret.op = "boot" /\ disk \in {FileMissing, FileUnreadable, FileNotJson, FileNotUtf8}) =>
          /\ ret'.ok
          /\ IsDefaultAggregate(rarities', items', inventory', history', stats', settings')
          /\ validate_rarity_ranges(rarities', settings').ok
          /\ disk' = Aggregate' ]_vars

\* C21: the rarity a draw selects is the one stored first among those whose band
\* [min_roll, max_roll] holds the roll, both ends included; when no band holds the
\* roll the draw gives neither rarity nor item, nothing is added to the results,
\* and the batch still runs all its draws and returns ok.
C21_FirstMatchInCatalogOrder ==
    [][ (ret'.op = "open_case" /\ ret'.ok) =>
          /\ ret'.last_draw # None
          /\ LET d == ret'.last_draw[1]
                 hits == Matching(rarities, d.roll)
                 n == ret'.args.times
             IN  /\ hits # {} => \E k \in hits : /\ \A j \in hits : k <= j
                                                 /\ d.rarity = Some(rarities[k])
                 /\ hits = {} => d.rarity = None /\ d.item = None
                 /\ d.item # None => /\ ret'.results # <<>>
                                     /\ ret'.results[Len(ret'.results)].rarity = d.rarity[1]
                 /\ (d.item = None /\ ret'.attempts = 1) => ret'.results = <<>>
                 /\ ret'.attempts = (IF n < 1 THEN 1 ELSE IF n > 100 THEN 100 ELSE n) ]_vars

\* C21 witness: the roll 60.0 lies in two bands that share that limit; the upper
\* band is stored first and was selected, though the lower one sorts first.
C21_Witness ==
    /\ ret.op = "open_case" /\ ret.ok /\ ret.last_draw # None
    /\ ret.last_draw[1].roll = R(60)
    /\ Matching(rarities, R(60)) = {1, 2}
    /\ rarities[1].min_roll > rarities[2].min_roll
    /\ ret.last_draw[1].rarity = Some(rarities[1])
    /\ ret.results[Len(ret.results)].rarity = rarities[1]

\* C22 (as claimed): every result of an open_case call names an item of the
\* catalog with weight > 0 whose rarity_id is the id of the result's rarity, and
\* the band of that rarity holds the result's roll; an item with weight <= 0
\* gains neither inventory nor by_item count in the call.
C22_ResultsAreValid ==
    [][ (ret'.op = "open_case" /\ ret'.ok) =>
          /\ \A k \in 1..Len(ret'.results) :
                LET res == ret'.results[k]
                IN  /\ \E i \in 1..Len(items) : items[i] = res.item
                    /\ res.item.weight > 0
                    /\ res.item.rarity_id = res.rarity.id
                    /\ res.rarity.min_roll <= res.roll /\ res.roll <= res.rarity.max_roll
          /\ \A i \in 1..Len(items) :
                items[i].weight <= 0 =>
                    /\ Get(inventory', items[i].id, 0) = Get(inventory, items[i].id, 0)
                    /\ Get(stats'.by_item, items[i].id, 0) = Get(stats.by_item, items[i].id, 0) ]_vars

\* The sum of the counts of a by_rarity or by_item dict
RECURSIVE SumCounts(_)
SumCounts(m) ==
    IF DOMAIN m = {} THEN 0
    ELSE LET k == CHOOSE x \in DOMAIN m : TRUE
         IN  m[k] + SumCounts([x \in (DOMAIN m) \ {k} |-> m[x]])

\* C23: total_opened is the sum of the counts of by_rarity and the sum of the
\* counts of by_item.
C23_TotalOpenedIsSumOfCounts ==
    /\ stats.total_opened = SumCounts(stats.by_rarity)
    /\ stats.total_opened = SumCounts(stats.by_item)

\* C23 witness: an item that a batch had drawn was deleted; its count is still in
\* by_item and in the total.
C23_Witness ==
    /\ ret.op = "delete_item" /\ ret.ok
    /\ ret.args.item_id \in DOMAIN stats.by_item
    /\ stats.by_item[ret.args.item_id] > 0
    /\ stats.total_opened > 0

\* C24 (as claimed): the constructor returns for every document whose items, if
\* any, name rarities of the document; afterwards there are items, and every item
\* names a rarity of the catalog.
C24_StartupCompletesForEveryDocument ==
    [][ ( /\ ret.op = "boot"
          /\ IsDocument(disk)
          /\ ItemsReferToRarities(loaded_data(disk).items, loaded_data(disk).rarities) ) =>
          /\ ret'.ok
          /\ items' # <<>>
          /\ ItemsReferToRarities(items', rarities') ]_vars

====
